---- MODULE Spec2Model ----
(***************************************************************************)
(* A model of the caching web proxy of src/proxy.py: the Cache store on    *)
(* the file system, the HTTP message framing and parsing, and the          *)
(* accept / handle_connection loop of ProxyServer.                         *)
(*                                                                         *)
(* Text is a sequence of lexemes.  A lexeme is a string that no operation  *)
(* of the program divides: a delimiter character (" ", "\r", "\n", "/",    *)
(* ":", "?"), a single payload or path character, or a word of a request   *)
(* or response ("GET", "HTTP/", "1.1", "200", "Content-Length").  The      *)
(* program's str and bytes operations (split, find, rindex, join, +=) are  *)
(* computed on these sequences as Python computes them on characters.      *)
(***************************************************************************)
EXTENDS Integers, Sequences, FiniteSets, TLC

(***************************************************************************)
(* Program constants                                                       *)
(***************************************************************************)
BUF_SZ == 4096
SUCCESS == 200
NOT_FOUND == 404
SERVER_ERROR == 500
PORT == 80

CR == "\r"
LF == "\n"
SP == " "
SLASH == "/"
COLON == ":"

delimiter == <<CR, LF>>
header_delimiter == delimiter \o delimiter
\* supported_version = 1.1, in tenths
supported_version == 11

root_path == <<".", SLASH, "cache">>
default_file == <<"root">>

\* the value None of Python (urlparse gives it for a URI without a host);
\* a host name is never the empty string
None == <<>>

(***************************************************************************)
(* Python str operations on lexeme sequences                               *)
(***************************************************************************)

\* does pat occur in s at position i (1-based)
MatchAt(s, pat, i) ==
    /\ i >= 1
    /\ i + Len(pat) - 1 <= Len(s)
    /\ \A k \in 1..Len(pat) : s[i + k - 1] = pat[k]

\* str.find: the first position (1-based) of pat in s, 0 when there is none
\* (Python's -1)
find(s, pat) ==
    LET hits == {i \in 1..Len(s) : MatchAt(s, pat, i)}
    IN  IF hits = {} THEN 0 ELSE CHOOSE i \in hits : \A j \in hits : i <= j

\* str.rindex of a character: the last position of ch in s, 0 when there is
\* none (Python raises ValueError)
rindex(s, ch) ==
    LET hits == {i \in 1..Len(s) : s[i] = ch}
    IN  IF hits = {} THEN 0 ELSE CHOOSE i \in hits : \A j \in hits : i >= j

\* str.split(sep) with a non-empty separator: the pieces between the
\* non-overlapping occurrences of sep, scanned left to right
RECURSIVE split(_, _)
split(s, sep) ==
    LET i == find(s, sep)
    IN  IF i = 0 THEN <<s>>
        ELSE <<SubSeq(s, 1, i - 1)>>
             \o split(SubSeq(s, i + Len(sep), Len(s)), sep)

\* str.join of a sequence of texts with no separator
RECURSIVE join(_)
join(parts) ==
    IF parts = <<>> THEN <<>> ELSE Head(parts) \o join(Tail(parts))

\* str.strip: leading and trailing white space removed
RECURSIVE lstrip(_)
lstrip(s) ==
    IF s # <<>> /\ Head(s) \in {SP, CR, LF} THEN lstrip(Tail(s)) ELSE s

RECURSIVE rstrip(_)
rstrip(s) ==
    IF s # <<>> /\ s[Len(s)] \in {SP, CR, LF}
    THEN rstrip(SubSeq(s, 1, Len(s) - 1)) ELSE s

strip(s) == rstrip(lstrip(s))

\* str.lower, lexeme by lexeme
LowerOf(c) ==
    CASE c = "Content-Length" -> "content-length"
      [] c = "Content-length" -> "content-length"
      [] c = "GET" -> "get"
      [] c = "POST" -> "post"
      [] c = "HTTP/" -> "http/"
      [] c = "Host" -> "host"
      [] c = "OK" -> "ok"
      [] OTHER -> c

lower(s) == [i \in 1..Len(s) |-> LowerOf(s[i])]

\* the number of bytes of a lexeme in UTF-8
Width(c) == IF c = "U+00E9" THEN 2 ELSE Len(c)

\* len(bytes(s, 'utf-8'))
RECURSIVE ByteLen(_)
ByteLen(s) == IF s = <<>> THEN 0 ELSE Width(Head(s)) + ByteLen(Tail(s))

\* int(s): the value of a decimal lexeme, -1 when s is not one (ValueError)
Numerals == {"0", "1", "2", "3", "4", "5", "6", "7", "8", "9",
             "200", "404", "500", "503"}

IntOf(s) ==
    IF Len(s) = 1 /\ s[1] \in Numerals
    THEN CHOOSE n \in 0..999 : ToString(n) = s[1]
    ELSE -1

\* float(s) in tenths: the value of a version lexeme, -1 when s is not a
\* number (ValueError)
Versions == {"0.9", "1.0", "1.1", "1.2", "2.0"}

FloatOf(s) ==
    IF Len(s) = 1 /\ s[1] \in Versions
    THEN CASE s[1] = "0.9" -> 9
           [] s[1] = "1.0" -> 10
           [] s[1] = "1.1" -> 11
           [] s[1] = "1.2" -> 12
           [] s[1] = "2.0" -> 20
    ELSE -1

(***************************************************************************)
(* pathlib.Path on a POSIX file system.  A Path is the sequence of its     *)
(* parts; a part is the text between two separators.                       *)
(***************************************************************************)

\* Path(text): empty parts and "." parts are dropped
RECURSIVE DropEmpty(_)
DropEmpty(parts) ==
    IF parts = <<>> THEN <<>>
    ELSE IF Head(parts) = <<>> \/ Head(parts) = <<".">>
         THEN DropEmpty(Tail(parts))
         ELSE <<Head(parts)>> \o DropEmpty(Tail(parts))

Path(text) == DropEmpty(split(text, <<SLASH>>))

\* f'{host}': None is formatted as the word None
Format(host) == IF host = None THEN <<"None">> ELSE host

Prefixes(p) == {SubSeq(p, 1, n) : n \in 1..Len(p)}
Parent(p) == SubSeq(p, 1, Len(p) - 1)

\* Path.exists
exists(dirs, files, p) == p \in dirs \/ p \in DOMAIN files

\* os.linesep is "\n": writing in text mode leaves the text as it is
WriteTranslate(text) == text

\* reading in text mode (newline=None): "\r\n" and "\r" become "\n"
RECURSIVE ReadTranslate(_)
ReadTranslate(text) ==
    IF text = <<>> THEN <<>>
    ELSE IF Head(text) = CR
         THEN IF Len(text) >= 2 /\ text[2] = LF
              THEN <<LF>> \o ReadTranslate(SubSeq(text, 3, Len(text)))
              ELSE <<LF>> \o ReadTranslate(Tail(text))
         ELSE <<Head(text)>> \o ReadTranslate(Tail(text))

\* Path.mkdir(parents=True, exist_ok=True): raises when the path or one of
\* its ancestors is a file
mkdir(dirs, files, p) ==
    IF \E q \in Prefixes(p) : q \in DOMAIN files
    THEN [raised |-> TRUE, dirs |-> dirs]
    ELSE [raised |-> FALSE, dirs |-> dirs \cup Prefixes(p)]

\* Path.write_text: raises when the path is a directory or its parent is not
write_text(dirs, files, p, text) ==
    IF p = <<>> \/ p \in dirs \/ Parent(p) \notin dirs
    THEN [raised |-> TRUE, files |-> files]
    ELSE [raised |-> FALSE,
          files |-> [q \in DOMAIN files \cup {p} |->
                       IF q = p THEN WriteTranslate(text) ELSE files[q]]]

\* Path.read_text: raises when the path is not a file
read_text(dirs, files, p) ==
    IF p \in DOMAIN files
    THEN [raised |-> FALSE, text |-> ReadTranslate(files[p])]
    ELSE [raised |-> TRUE, text |-> <<>>]

(***************************************************************************)
(* class Cache                                                             *)
(***************************************************************************)

get_path(host, path) == Path(root_path \o <<SLASH>> \o Format(host) \o path)

contains(dirs, files, host, path) == exists(dirs, files, get_path(host, path))

\* path[0:path.rindex('/')]; rindex raises when the path has no '/'
DirPath(path) == SubSeq(path, 1, rindex(path, SLASH) - 1)

\* the path of the file of an entry: default_file is appended when the
\* directory part is empty
FilePath(path) ==
    IF DirPath(path) = path \/ Len(DirPath(path)) = 0
    THEN path \o default_file
    ELSE path

cache_file(dirs, files, host, path, payload) ==
    LET written(md, wr) ==
            [raised |-> wr.raised, dirs |-> md.dirs, files |-> wr.files]
        made(md) ==
            IF md.raised
            THEN [raised |-> TRUE, dirs |-> dirs, files |-> files]
            ELSE written(md, write_text(md.dirs, files,
                                        get_path(host, FilePath(path)),
                                        payload))
    IN  IF rindex(path, SLASH) = 0
        THEN [raised |-> TRUE, dirs |-> dirs, files |-> files]
        ELSE made(mkdir(dirs, files, get_path(host, DirPath(path))))

read_cache(dirs, files, host, path) ==
    IF rindex(path, SLASH) = 0
    THEN [raised |-> TRUE, text |-> <<>>]
    ELSE read_text(dirs, files, get_path(host, FilePath(path)))

(***************************************************************************)
(* class HTTPprotocol, HTTPrequest, HTTPresponse                           *)
(***************************************************************************)

\* is_supported_version with < written for <=
is_supported_version_strict(request_version) ==
    request_version < supported_version

is_supported_version(request_version) == request_version <= supported_version

\* a dict as the sequence of its <<key, value>> items in insertion order;
\* d[key] = value keeps the place of a key that is already there
SetItem(d, key, value) ==
    IF \E i \in 1..Len(d) : d[i][1] = key
    THEN [i \in 1..Len(d) |-> IF d[i][1] = key THEN <<key, value>> ELSE d[i]]
    ELSE Append(d, <<key, value>>)

RECURSIVE update(_, _)
update(d, other) ==
    IF other = <<>> THEN d
    ELSE update(SetItem(d, Head(other)[1], Head(other)[2]), Tail(other))

\* the header lines of __repr__: f'{key}: {value}\r\n' for every item
RECURSIVE HeaderLines(_)
HeaderLines(d) ==
    IF d = <<>> THEN <<>>
    ELSE Head(d)[1] \o <<COLON, SP>> \o Head(d)[2] \o delimiter
         \o HeaderLines(Tail(d))

\* f'{version}' of a float held in tenths
FormatVersion(v) == <<ToString(v \div 10) \o "." \o ToString(v % 10)>>

\* HTTPrequest.populate: headers and body are left empty
populate(method, uri, version) ==
    [method |-> method, uri |-> uri, headers |-> <<>>, version |-> version,
     body |-> <<>>]

\* HTTPrequest.build_from_raw: only the first line is parsed
build_from_raw(raw_request) ==
    LET \* version = raw_version.split('HTTP/')[1]; populate: float(version)
        versioned(method, url, vparts) ==
            IF Len(vparts) < 2 THEN [raised |-> TRUE]
            ELSE IF FloatOf(vparts[2]) = -1 THEN [raised |-> TRUE]
            ELSE [raised |-> FALSE,
                  request |-> populate(method, url, FloatOf(vparts[2]))]
        \* method, url, raw_version = tokens[0].split(' ')
        unpacked(first) ==
            IF Len(first) # 3 THEN [raised |-> TRUE]
            ELSE versioned(first[1], first[2], split(first[3], <<"HTTP/">>))
    IN  unpacked(split(split(raw_request, delimiter)[1], <<SP>>))

\* HTTPrequest.__repr__
request_repr(r) ==
    r.method \o <<SP>> \o r.uri \o <<SP, "HTTP/">> \o FormatVersion(r.version)
    \o delimiter \o HeaderLines(r.headers) \o delimiter \o r.body

status_msgs(code) ==
    CASE code = 200 -> <<"OK">>
      [] code = 404 -> <<"Not", SP, "Found">>
      [] code = 500 -> <<"Internal", SP, "Error">>

status_codes == {200, 404, 500}

get_default_headers ==
    << <<<<"Connection">>, <<"close">>>>, <<<<"Cache-Hit">>, <<"0">>>> >>

\* HTTPresponse.__init__
HTTPresponse(status_code, default_headers) ==
    [obj |-> TRUE, status_code |-> status_code,
     headers |-> IF default_headers THEN get_default_headers ELSE <<>>,
     body |-> <<>>]

\* HTTPresponse.__repr__
response_repr(r) ==
    <<"HTTP/">> \o FormatVersion(supported_version)
    \o <<SP, ToString(r.status_code), SP>> \o status_msgs(r.status_code)
    \o delimiter \o HeaderLines(r.headers) \o delimiter \o r.body

\* str(http_response): handle_cache_miss may return a str instead of an
\* HTTPresponse
str(r) == IF r.obj THEN response_repr(r) ELSE r.text

\* len(s) of a str: the number of its characters
CharLen(c) == IF c = "U+00E9" THEN 1 ELSE Len(c)

RECURSIVE len(_)
len(s) == IF s = <<>> THEN 0 ELSE CharLen(Head(s)) + len(Tail(s))

(***************************************************************************)
(* urllib.parse.urlparse, for URIs of the forms  http://netloc path ?query *)
(* and  path ?query                                                        *)
(***************************************************************************)
UpTo(s, stops) ==
    LET hits == {i \in 1..Len(s) : s[i] \in stops}
    IN  IF hits = {} THEN s
        ELSE SubSeq(s, 1, (CHOOSE i \in hits : \A j \in hits : i <= j) - 1)

urlparse(uri) ==
    IF uri # <<>> /\ Head(uri) = "http://"
    THEN LET netloc == UpTo(Tail(uri), {SLASH, "?", "#"})
             rest == SubSeq(Tail(uri), Len(netloc) + 1, Len(uri) - 1)
         IN  [hostname |-> lower(UpTo(netloc, {COLON})),
              path |-> UpTo(rest, {"?", "#"})]
    ELSE [hostname |-> None, path |-> UpTo(uri, {"?", "#"})]

(***************************************************************************)
(* Sockets.  A peer's stream is the sequence of the chunks that successive *)
(* recv calls return, and what recv does once they are used up: "close"    *)
(* (the peer closed, recv returns b''), "error" (recv raises) or "stall"   *)
(* (the peer stays silent and open: no timeout is ever set on a socket, so *)
(* recv never returns).                                                    *)
(***************************************************************************)
InvalidByte == "0xFF"

\* sock.recv(BUF_SZ), the i-th call on the stream
recv(stream, i) ==
    IF i <= Len(stream.chunks)
    THEN [raised |-> FALSE, blocked |-> FALSE, data |-> stream.chunks[i]]
    ELSE [raised |-> stream.end = "error", blocked |-> stream.end = "stall",
          data |-> <<>>]

\* bytes.decode('utf-8') raises on a byte that is not UTF-8
DecodeRaises(data) == \E i \in 1..Len(data) : data[i] = InvalidByte

\* the first loop of receive: read until a chunk is short or holds the
\* header terminator
RECURSIVE ReadHeaders(_, _, _)
ReadHeaders(stream, i, headers) ==
    LET temp == recv(stream, i)
    IN  IF temp.raised \/ temp.blocked
        THEN [raised |-> temp.raised, blocked |-> temp.blocked,
              data |-> headers, next |-> i]
        ELSE IF ByteLen(temp.data) < BUF_SZ
                \/ find(temp.data, header_delimiter) > 0
             THEN [raised |-> FALSE, blocked |-> FALSE,
                   data |-> headers \o temp.data, next |-> i + 1]
             ELSE ReadHeaders(stream, i + 1, headers \o temp.data)

\* the Content-Length scan of receive: the first line holding
\* 'content-length:' gives the size (-1: int() raises), no such line gives 0
RECURSIVE ContentLength(_)
ContentLength(lines) ==
    IF lines = <<>> THEN 0
    ELSE IF find(lower(Head(lines)), <<"content-length", COLON>>) > 0
         THEN IntOf(strip(split(Head(lines), <<COLON>>)[2]))
         ELSE ContentLength(Tail(lines))

\* the second loop of receive without its test of an empty read: the closed
\* peer is an error
RECURSIVE ReadBody_raising(_, _, _, _, _)
ReadBody_raising(stream, i, received, size, payload) ==
    IF received < size
    THEN LET temp == recv(stream, i)
         IN  IF temp.raised \/ temp.blocked \/ temp.data = <<>>
             THEN [raised |-> ~temp.blocked, blocked |-> temp.blocked,
                   data |-> payload]
             ELSE ReadBody_raising(stream, i + 1,
                                   received + ByteLen(temp.data), size,
                                   payload \o temp.data)
    ELSE [raised |-> FALSE, blocked |-> FALSE, data |-> payload]

\* the second loop of receive: read until size bytes were received or the
\* peer closed
RECURSIVE ReadBody(_, _, _, _, _)
ReadBody(stream, i, received, size, payload) ==
    IF received < size
    THEN LET temp == recv(stream, i)
         IN  IF temp.raised \/ temp.blocked
             THEN [raised |-> temp.raised, blocked |-> temp.blocked,
                   data |-> payload]
             ELSE IF temp.data = <<>>
                  THEN [raised |-> FALSE, blocked |-> FALSE, data |-> payload]
                  ELSE ReadBody(stream, i + 1, received + ByteLen(temp.data),
                                size, payload \o temp.data)
    ELSE [raised |-> FALSE, blocked |-> FALSE, data |-> payload]

\* ProxyServer.receive
receive(stream) ==
    LET failed == [raised |-> TRUE, blocked |-> FALSE, headers |-> <<>>,
                   payload |-> <<>>]
        \* a recv that never returns
        stuck == [raised |-> FALSE, blocked |-> TRUE, headers |-> <<>>,
                  payload |-> <<>>]
        \* return headers, payload.decode('utf-8')
        done(headers, body) ==
            IF body.blocked THEN stuck
            ELSE IF body.raised \/ DecodeRaises(body.data) THEN failed
            ELSE [raised |-> FALSE, blocked |-> FALSE, headers |-> headers,
                  payload |-> body.data]
        \* the second loop, from the payload already read
        sized(next, headers, payload, size) ==
            IF size = -1 THEN failed
            ELSE done(headers, ReadBody(stream, next, ByteLen(payload), size,
                                        payload))
        \* headers = tokens[0]; payload = tokens[1] when there is one
        framed(next, tokens) ==
            sized(next, tokens[1],
                  IF Len(tokens) > 1 THEN tokens[2] ELSE <<>>,
                  ContentLength(split(tokens[1], delimiter)))
        \* headers.decode('utf-8').split(header_delimiter)
        read(first) ==
            IF first.blocked THEN stuck
            ELSE IF first.raised \/ DecodeRaises(first.data) THEN failed
            ELSE framed(first.next, split(first.data, header_delimiter))
    IN  read(ReadHeaders(stream, 1, <<>>))

(***************************************************************************)
(* class ProxyServer: the handlers.  A handler's result holds the response *)
(* (or raised, when an exception leaves the handler), the file system it   *)
(* leaves, and a record of what it did: the stage of the connection state  *)
(* machine at which the response was decided, the outbound connections     *)
(* opened, the cache reads and writes, and whether the handler is still    *)
(* waiting in a recv on the origin that never returns (blocked).           *)
(***************************************************************************)

\* the origin of a connection: connect and send succeed or raise, and the
\* stream the origin answers with
NoOrigin == [connect |-> FALSE, send |-> FALSE,
             stream |-> [chunks |-> <<>>, end |-> "close"]]

\* ProxyServer.contact_server
contact_server(host, http_request, origin) ==
    IF host = None \/ ~origin.connect
    THEN [raised |-> TRUE, blocked |-> FALSE, headers |-> <<>>,
          payload |-> <<>>, outbound |-> IF host = None THEN 0 ELSE 1]
    ELSE IF ~origin.send
    THEN [raised |-> TRUE, blocked |-> FALSE, headers |-> <<>>,
          payload |-> <<>>, outbound |-> 1]
    ELSE LET received(r) == [raised |-> r.raised, blocked |-> r.blocked,
                             headers |-> r.headers, payload |-> r.payload,
                             outbound |-> 1]
         IN  received(receive(origin.stream))

\* the status code of handle_cache_miss: int() of the second word of the
\* first line, -1 when there is none or it is no number
StatusCode(headers) ==
    LET first_line_tokens == split(split(headers, delimiter)[1], <<SP>>)
    IN  IF Len(first_line_tokens) < 2 THEN -1
        ELSE IntOf(first_line_tokens[2])

\* ProxyServer.handle_cache_hit
handle_cache_hit(dirs, files, host, path) ==
    LET http_response(payload) ==
            [obj |-> TRUE, status_code |-> SUCCESS,
             headers |-> << <<<<"Content-length">>, <<ToString(len(payload))>>>>,
                            <<<<"Connection">>, <<"close">>>>,
                            <<<<"Cache-Hit">>, <<"1">>>> >>,
             body |-> payload]
        hit(rd) ==
            [raised |-> rd.raised,
             response |-> http_response(rd.text),
             dirs |-> dirs, files |-> files,
             did |-> [stage |-> "Hit", host |-> host, path |-> path,
                      outbound |-> 0, reads |-> 1, writes |-> 0,
                      status |-> 0, stored |-> FALSE, payload |-> <<>>,
                      sent |-> <<>>, blocked |-> FALSE]]
    IN  hit(read_cache(dirs, files, host, path))

\* ProxyServer.handle_cache_miss
handle_cache_miss(dirs, files, host, path, http_request, origin) ==
    LET server_request ==
            [populate(http_request.method, path, supported_version)
               EXCEPT !.headers =
                 update(<< <<<<"Host">>, host>>,
                           <<<<"Connection">>, <<"close">>>> >>,
                        http_request.headers)]
        record(got, status_code) ==
            [stage |-> IF status_code = -1 THEN "OriginFetch"
                       ELSE "CacheDecision",
             host |-> host, path |-> path,
             outbound |-> got.outbound, reads |-> 0, writes |-> 0,
             status |-> status_code, stored |-> FALSE,
             payload |-> got.payload,
             sent |-> IF got.outbound = 1 /\ origin.connect
                      THEN request_repr(server_request) ELSE <<>>,
             blocked |-> got.blocked]
        \* status 200: Cache.cache_file, outside the try
        cached(text, d, cf) ==
            [raised |-> cf.raised,
             response |-> [obj |-> FALSE, text |-> text],
             dirs |-> cf.dirs, files |-> cf.files,
             did |-> [d EXCEPT !.writes = 1, !.stored = ~cf.raised]]
        decided(got, status_code, text, d) ==
            IF status_code = -1
            THEN [raised |-> FALSE,
                  response |-> HTTPresponse(SERVER_ERROR, TRUE),
                  dirs |-> dirs, files |-> files, did |-> d]
            ELSE IF status_code = SUCCESS
            THEN cached(text, d,
                        cache_file(dirs, files, host, path, got.payload))
            ELSE IF status_code \in status_codes
            THEN [raised |-> FALSE,
                  response |-> [obj |-> FALSE, text |-> text],
                  dirs |-> dirs, files |-> files, did |-> d]
            ELSE [raised |-> FALSE,
                  response |-> [HTTPresponse(SERVER_ERROR, TRUE)
                                  EXCEPT !.body = got.payload],
                  dirs |-> dirs, files |-> files, did |-> d]
        parsed_status(got, status_code) ==
            decided(got, status_code,
                    join(<<got.headers,
                           <<CR, LF, "Cache-Hit", COLON, SP, "0">>,
                           header_delimiter, got.payload>>),
                    record(got, status_code))
        \* the try: contact_server and the parse of the status line
        contacted(got) ==
            parsed_status(got, IF got.raised \/ got.blocked THEN -1
                               ELSE StatusCode(got.headers))
    IN  contacted(contact_server(host, server_request, origin))

\* ProxyServer.handle_get_request
handle_get_request(dirs, files, http_request, origin) ==
    LET lookup(host, path) ==
            IF contains(dirs, files, host, path)
            THEN handle_cache_hit(dirs, files, host, path)
            ELSE handle_cache_miss(dirs, files, host, path, http_request,
                                   origin)
        located(parsed_url) ==
            lookup(parsed_url.hostname,
                   IF Len(parsed_url.path) > 0 THEN parsed_url.path
                   ELSE <<SLASH>>)
    IN  located(urlparse(http_request.uri))

\* the test of the method in handle_http_request, with every method let
\* through
is_get_any(method) == method # <<>>

\* the test of the method in handle_http_request
is_get(method) == method = <<"GET">>

\* what a handler that touches neither the origin nor the cache did
Did(stage) ==
    [stage |-> stage, host |-> None, path |-> <<>>, outbound |-> 0,
     reads |-> 0, writes |-> 0, status |-> 0, stored |-> FALSE,
     payload |-> <<>>, sent |-> <<>>, blocked |-> FALSE]

\* ProxyServer.handle_http_request
handle_http_request(dirs, files, headers, payload, origin) ==
    LET refuse(stage) ==
            [raised |-> FALSE, response |-> HTTPresponse(SERVER_ERROR, TRUE),
             dirs |-> dirs, files |-> files, did |-> Did(stage)]
        dispatch(http_request) ==
            IF ~is_supported_version(http_request.version)
            THEN refuse("VersionCheck")
            ELSE IF is_get(http_request.method)
            THEN handle_get_request(dirs, files, http_request, origin)
            ELSE refuse("MethodDispatch")
        \* the try: build_from_raw and set_body
        built(b) ==
            IF b.raised THEN refuse("Parsing")
            ELSE dispatch([b.request EXCEPT !.body = payload])
    IN  built(build_from_raw(headers))

(***************************************************************************)
(* The environment: what clients send and what origins answer              *)
(***************************************************************************)
\* the number of connections the proxy accepts in a run
MaxConns == 3

host_h == <<"h">>

Paths == {<<SLASH>>, <<SLASH, "a">>, <<SLASH, "a", SLASH, "b">>,
          <<SLASH, "a", SLASH>>}

URIs == {<<"http://">> \o host_h \o p : p \in Paths \cup {<<>>}}
        \cup {<<SLASH, "a">>}

uri_ab == <<"http://">> \o host_h \o <<SLASH, "a", SLASH, "b">>

\* uri_ab with a query string
uri_ab_q == uri_ab \o <<"?", "q">>

\* header lines a client supplies
ClientHeaders == << <<"Host", COLON, SP, "b">>, <<"Accept", COLON, SP, "a">> >>

RequestText(method, uri, version_token) ==
    method \o <<SP>> \o uri \o <<SP>> \o version_token \o header_delimiter

ClientTexts ==
    {RequestText(<<"GET">>, u, <<"HTTP/", "1.1">>) : u \in URIs}
    \cup {RequestText(m, uri_ab, <<"HTTP/", v>>) :
            m \in {<<"GET">>, <<"POST">>}, v \in {"1.0", "1.1", "1.2", "2.0"}}
    \cup {<<"GET", SP>> \o uri_ab \o header_delimiter,
          RequestText(<<"GET">>, uri_ab, <<"HTTp/", "1.0">>),
          RequestText(<<"GET">>, uri_ab, <<"HTTP/", "x">>),
          <<"GET", SP>> \o uri_ab \o <<SP, "HTTP/", "1.1", CR, LF,
             "Content-Length", COLON, SP, "x">> \o header_delimiter,
          <<InvalidByte>>,
          RequestText(<<"GET">>, uri_ab_q, <<"HTTP/", "1.1">>),
          \* a request line and no empty line after it
          <<"GET", SP>> \o uri_ab \o <<SP, "HTTP/", "1.1">> \o delimiter,
          \* a request with header lines
          <<"GET", SP>> \o uri_ab \o <<SP, "HTTP/", "1.1">> \o delimiter
          \o ClientHeaders[1] \o delimiter \o ClientHeaders[2]
          \o header_delimiter}

ClientStreams ==
    {[chunks |-> <<t>>, end |-> "close"] : t \in ClientTexts}
    \cup {[chunks |-> <<>>, end |-> "error"],
          [chunks |-> <<>>, end |-> "stall"]}

Bodies == {<<"a", "b">>, <<"a", CR, LF, "b">>, <<"a", CR, LF, CR, LF, "b">>,
           <<"U+00E9">>}

StatusLines == {<<"200", SP, "OK">>, <<"404", SP, "Not", SP, "Found">>,
                <<"503", SP, "Service", SP, "Unavailable">>}

OriginText(status_line, body) ==
    <<"HTTP/", "1.1", SP>> \o status_line \o delimiter
    \o <<"Content-Length", COLON, SP, ToString(ByteLen(body))>>
    \o header_delimiter \o body

\* an answer that declares 9 bytes and delivers 2, in two reads
ShortChunks ==
    << <<"HTTP/", "1.1", SP, "200", SP, "OK">> \o delimiter
       \o <<"Content-Length", COLON, SP, "9">> \o header_delimiter \o <<"a">>,
       <<"b">> >>

OriginStreams ==
    {[chunks |-> <<OriginText(l, b)>>, end |-> "close"] :
       l \in StatusLines, b \in Bodies}
    \cup {[chunks |-> <<<<"garbage">> \o header_delimiter>>, end |-> "close"],
          [chunks |-> <<>>, end |-> "error"],
          [chunks |-> <<>>, end |-> "stall"],
          [chunks |-> ShortChunks, end |-> "close"],
          [chunks |-> ShortChunks, end |-> "stall"]}

Origins ==
    {[connect |-> TRUE, send |-> TRUE, stream |-> st] : st \in OriginStreams}
    \cup {[connect |-> FALSE, send |-> FALSE,
           stream |-> [chunks |-> <<>>, end |-> "close"]],
          [connect |-> TRUE, send |-> FALSE,
           stream |-> [chunks |-> <<>>, end |-> "close"]]}

(***************************************************************************)
(* The serving process: start_proxy and handle_connection                  *)
(***************************************************************************)
VARIABLES
    pc,             \* where the process is: "accept", "receive", "handle",
                    \* "respond", "close" in the loop; "blocked" in a recv
                    \* that never returns; "crashed" after an uncaught
                    \* exception; "shutdown" after an interrupt
    fault,          \* what raised the uncaught exception
    client,         \* the stream of the accepted client socket
    headers,        \* the header block receive returned for the client
    payload,        \* the payload receive returned for the client
    http_response,  \* the response chosen for the client
    dirs,           \* the directories of the file system
    files,          \* the files of the file system and their contents
    conns,          \* the number of connections accepted so far
    sent,           \* the texts written to the client socket
    closes,         \* the number of times the client socket was closed
    did,            \* what the handler did for this connection
    origin,         \* the origin the handler contacted for this connection
    stored,         \* for every (host, path), the payload of the latest
                    \* completed cache_file
    before,         \* stored, when this connection was accepted
    fetched200,     \* the (host, path) of every miss the origin answered 200
    http_request,   \* an HTTPrequest object
    raw_request,    \* str(http_request)
    rebuilt         \* the HTTPrequest built back from raw_request

\* the state of the serving process
serving == <<pc, fault, client, headers, payload, http_response, dirs, files,
             conns, sent, closes, did, origin, stored, before, fetched200>>

\* the state of the serialize-and-parse round trip of a request
roundtrip == <<http_request, raw_request, rebuilt>>

vars == <<serving, roundtrip>>

\* no request built yet
NotBuilt == [built |-> FALSE, raised |-> FALSE,
             request |-> populate(<<>>, <<>>, supported_version)]

NoStream == [chunks |-> <<>>, end |-> "close"]

\* main: Cache() has made the cache root, the listener listens
Init ==
    /\ pc = "accept"
    /\ fault = "none"
    /\ client = NoStream
    /\ headers = <<>>
    /\ payload = <<>>
    /\ http_response = HTTPresponse(SERVER_ERROR, TRUE)
    /\ dirs = {Path(root_path)}
    /\ files = <<>>
    /\ conns = 0
    /\ sent = <<>>
    /\ closes = 0
    /\ did = Did("None")
    /\ origin = NoOrigin
    /\ stored = <<>>
    /\ before = <<>>
    /\ fetched200 = {}
    /\ http_request = populate(<<>>, <<>>, supported_version)
    /\ raw_request = <<>>
    /\ rebuilt = NotBuilt

\* start_proxy: listener.accept() returns a client connection
Accept ==
    /\ pc = "accept"
    /\ conns < MaxConns
    /\ \E st \in ClientStreams : client' = st
    /\ pc' = "receive"
    /\ conns' = conns + 1
    /\ headers' = <<>>
    /\ payload' = <<>>
    /\ http_response' = HTTPresponse(SERVER_ERROR, TRUE)
    /\ sent' = <<>>
    /\ closes' = 0
    /\ did' = Did("None")
    /\ origin' = NoOrigin
    /\ before' = stored
    /\ UNCHANGED <<fault, dirs, files, stored, fetched200>>
    /\ UNCHANGED roundtrip

\* handle_connection: the try around receive; a client that stays silent
\* keeps the process in recv
Receive ==
    /\ pc = "receive"
    /\ \E r \in {receive(client)} :
           IF r.blocked
           THEN /\ pc' = "blocked"
                /\ UNCHANGED <<headers, payload, http_response>>
           ELSE IF r.raised
           THEN /\ http_response' = HTTPresponse(SERVER_ERROR, TRUE)
                /\ pc' = "respond"
                /\ UNCHANGED <<headers, payload>>
           ELSE /\ headers' = r.headers
                /\ payload' = r.payload
                /\ pc' = "handle"
                /\ UNCHANGED http_response
    /\ UNCHANGED <<fault, client, dirs, files, conns, sent, closes, did,
                   origin, stored, before, fetched200>>
    /\ UNCHANGED roundtrip

\* handle_connection: the else branch, handle_http_request; an exception
\* that leaves it is caught nowhere and ends the process, and a recv on an
\* origin that stays silent keeps the process in the handler
Handle ==
    /\ pc = "handle"
    /\ \E o \in Origins :
         \E r \in {handle_http_request(dirs, files, headers, payload, o)} :
             /\ dirs' = r.dirs
             /\ files' = r.files
             /\ did' = r.did
             /\ origin' = IF r.did.outbound = 1 THEN o ELSE NoOrigin
             /\ stored' = IF r.did.stored
                          THEN [k \in DOMAIN stored
                                        \cup {<<r.did.host, r.did.path>>} |->
                                  IF k = <<r.did.host, r.did.path>>
                                  THEN r.did.payload
                                  ELSE stored[k]]
                          ELSE stored
             /\ fetched200' = IF r.did.status = SUCCESS
                              THEN fetched200
                                     \cup {<<r.did.host, r.did.path>>}
                              ELSE fetched200
             /\ IF r.did.blocked
                THEN /\ pc' = "blocked"
                     /\ UNCHANGED <<fault, http_response>>
                ELSE IF r.raised
                THEN /\ pc' = "crashed"
                     /\ fault' = "handler"
                     /\ UNCHANGED http_response
                ELSE /\ pc' = "respond"
                     /\ http_response' = r.response
                     /\ UNCHANGED fault
    /\ UNCHANGED <<client, headers, payload, conns, sent, closes, before>>
    /\ UNCHANGED roundtrip

\* handle_connection: send; sendall raises when the client is gone, and the
\* exception is caught nowhere
Respond ==
    /\ pc = "respond"
    /\ \E ok \in BOOLEAN :
         IF ok
         THEN /\ sent' = Append(sent, str(http_response))
              /\ pc' = "close"
              /\ UNCHANGED fault
         ELSE /\ pc' = "crashed"
              /\ fault' = "send"
              /\ UNCHANGED sent
    /\ UNCHANGED <<client, headers, payload, http_response, dirs, files,
                   conns, closes, did, origin, stored, before, fetched200>>
    /\ UNCHANGED roundtrip

\* handle_connection: client.close(), then back to accept
Close ==
    /\ pc = "close"
    /\ closes' = closes + 1
    /\ pc' = "accept"
    /\ UNCHANGED <<fault, client, headers, payload, http_response, dirs,
                   files, conns, sent, did, origin, stored, before,
                   fetched200>>
    /\ UNCHANGED roundtrip

\* start_proxy: KeyboardInterrupt closes the listener and exits
Interrupt ==
    /\ pc \in {"accept", "receive", "handle", "respond", "close", "blocked"}
    /\ pc' = "shutdown"
    /\ UNCHANGED <<fault, client, headers, payload, http_response, dirs,
                   files, conns, sent, closes, did, origin, stored, before,
                   fetched200>>
    /\ UNCHANGED roundtrip

Next == Accept \/ Receive \/ Handle \/ Respond \/ Close \/ Interrupt

Spec == Init /\ [][Next]_vars

(***************************************************************************)
(* The round trip of a request: an HTTPrequest is serialized by __repr__,  *)
(* and the text is parsed back by build_from_raw on its header block and   *)
(* set_body on its payload.                                                *)
(***************************************************************************)
RequestHeaders ==
    {<<>>,
     << <<<<"Host">>, host_h>> >>,
     << <<<<"Host">>, host_h>>, <<<<"Accept">>, <<"a">>>> >>}

Requests ==
    {[populate(m, u, v) EXCEPT !.headers = h, !.body = b] :
       m \in {<<"GET">>, <<"POST">>},
       u \in {uri_ab, uri_ab_q, <<SLASH, "a">>},
       v \in {10, 11, 20},
       h \in RequestHeaders,
       b \in {<<>>, <<"a", "b">>, <<"a", CR, LF, "b">>}}

\* the header block and the payload of a message, divided at the first
\* header terminator
HeaderBlock(text) == split(text, header_delimiter)[1]

Payload(text) ==
    LET i == find(text, header_delimiter)
    IN  IF i = 0 THEN <<>>
        ELSE SubSeq(text, i + Len(header_delimiter), Len(text))

RoundTripInit ==
    /\ pc = "accept"
    /\ fault = "none"
    /\ client = NoStream
    /\ headers = <<>>
    /\ payload = <<>>
    /\ http_response = HTTPresponse(SERVER_ERROR, TRUE)
    /\ dirs = {Path(root_path)}
    /\ files = <<>>
    /\ conns = 0
    /\ sent = <<>>
    /\ closes = 0
    /\ did = Did("None")
    /\ origin = NoOrigin
    /\ stored = <<>>
    /\ before = <<>>
    /\ fetched200 = {}
    /\ http_request \in Requests
    /\ raw_request = <<>>
    /\ rebuilt = NotBuilt

\* str(http_request)
Serialize ==
    /\ raw_request = <<>>
    /\ raw_request' = request_repr(http_request)
    /\ UNCHANGED <<http_request, rebuilt>>
    /\ UNCHANGED serving

\* build_from_raw(header block), then set_body(payload)
Rebuild ==
    /\ raw_request # <<>>
    /\ ~rebuilt.built
    /\ \E b \in {build_from_raw(HeaderBlock(raw_request))} :
         rebuilt' = IF b.raised
                    THEN [NotBuilt EXCEPT !.built = TRUE, !.raised = TRUE]
                    ELSE [built |-> TRUE, raised |-> FALSE,
                          request |-> [b.request EXCEPT
                                         !.body = Payload(raw_request)]]
    /\ UNCHANGED <<http_request, raw_request>>
    /\ UNCHANGED serving

RoundTripNext == Serialize \/ Rebuild

RoundTripSpec == RoundTripInit /\ [][RoundTripNext]_vars

(***************************************************************************)
(* Properties                                                              *)
(***************************************************************************)

\* the handler of the current connection has run
Handled == did.stage # "None"

\* the handling of the current connection has ended
Ended == pc = "crashed" \/ (pc = "accept" /\ conns > 0)

\* the current request, as handle_http_request parsed it
parsed == build_from_raw(headers)

\* the handler looked the request up in the cache
LookedUp == did.stage \in {"Hit", "OriginFetch", "CacheDecision"}

key == <<did.host, did.path>>

\* a response as its receiver reads it: the header block before the first
\* header terminator, the body after it
HeaderBlockOf(text) == split(text, header_delimiter)[1]

BodyOf(text) ==
    LET i == find(text, header_delimiter)
    IN  IF i = 0 THEN <<>> ELSE SubSeq(text, i + Len(header_delimiter), Len(text))

StatusOf(text) == StatusCode(HeaderBlockOf(text))

HeaderLinesOf(text) == Tail(split(HeaderBlockOf(text), delimiter))

WellFormed(text) ==
    LET first == split(split(HeaderBlockOf(text), delimiter)[1], <<SP>>)
    IN  /\ find(text, header_delimiter) > 0
        /\ Len(first) >= 3
        /\ Len(first[1]) = 2
        /\ first[1][1] = "HTTP/"
        /\ IntOf(first[2]) # -1

\* what the origin of the current connection put on the wire
OriginWire == join(origin.stream.chunks)

\* C1: once the handling of a connection has ended, and unless writing to
\* the client itself failed, exactly one well-formed response was written to
\* the client socket
C1_OneResponse ==
    (Ended /\ fault # "send") => (Len(sent) = 1 /\ WellFormed(sent[1]))

\* C2: once the handling of a connection has ended, on whatever path, the
\* client socket was closed exactly once
C2_ClosedOnce == Ended => closes = 1

\* C3: no error of the handling of a request (malformed request,
\* unsupported version or method, origin failure, cache failure) terminates
\* the serving process
C3_KeepsServing == ~(pc = "crashed" /\ fault = "handler")

\* C4: a GET for a (host, path) whose payload an earlier miss stored is a
\* cache hit: status 200, the stored body, Cache-Hit: 1, and no outbound
\* connection
C4_LaterGetIsHit ==
    (Handled /\ LookedUp /\ key \in DOMAIN before) =>
        /\ did.stage = "Hit"
        /\ fault # "handler"
        /\ did.outbound = 0
        /\ StatusOf(str(http_response)) = SUCCESS
        /\ BodyOf(str(http_response)) = before[key]
        /\ \E i \in 1..Len(HeaderLinesOf(str(http_response))) :
             HeaderLinesOf(str(http_response))[i]
               = <<"Cache-Hit", COLON, SP, "1">>

\* C5: the body of a cache-hit response is the payload most recently stored
\* for the same (host, path)
C5_HitBodyIsStored ==
    (did.stage = "Hit" /\ fault # "handler") =>
        /\ key \in DOMAIN before
        /\ http_response.body = before[key]

\* C6: the cache contains a (host, path) only if an earlier miss for that
\* same (host, path) was answered 200 by the origin
C6_OnlyFetchedEntries ==
    \A p \in Paths :
        contains(dirs, files, host_h, p) => <<host_h, p>> \in fetched200

\* C7: on a miss answered 404 the response to the client is the origin's
\* response, nothing added and nothing removed
C7_PassThrough ==
    (did.stage = "CacheDecision" /\ did.status = NOT_FOUND) =>
        str(http_response) = OriginWire

\* C8: on a miss answered with a status outside {200, 404, 500} the
\* response to the client has status 500 and the origin's payload as its
\* body, and the cache is as it was
C8_Normalised ==
    (did.stage = "CacheDecision" /\ did.status \notin status_codes) =>
        /\ StatusOf(str(http_response)) = SERVER_ERROR
        /\ BodyOf(str(http_response)) = BodyOf(OriginWire)
        /\ stored = before

\* C9: a well-formed GET request is refused at the version check, with a
\* 500 response, if and only if its version is greater than 1.1; at 1.1 or
\* below it goes on to the method dispatch
C9_VersionCheck ==
    (Handled /\ ~parsed.raised /\ parsed.request.method = <<"GET">>) =>
        /\ did.stage # "Parsing"
        /\ (did.stage = "VersionCheck") <=> (parsed.request.version > 11)
        /\ did.stage = "VersionCheck" =>
             (fault # "handler" /\ StatusOf(str(http_response)) = SERVER_ERROR)

C9_Witness ==
    /\ pc = "respond"
    /\ Handled
    /\ ~parsed.raised
    /\ parsed.request.method = <<"GET">>
    /\ parsed.request.version = 20
    /\ did.stage = "VersionCheck"

\* C10: handling a request whose method is not GET yields a 500 response,
\* opens no outbound connection, looks nothing up in the cache and leaves
\* the cache files as they were
C10_NonGetFrame ==
    [][(/\ pc = "handle"
        /\ pc' \in {"respond", "crashed"}
        /\ ~parsed.raised
        /\ parsed.request.method # <<"GET">>)
       => (/\ pc' = "respond"
           /\ StatusOf(str(http_response')) = SERVER_ERROR
           /\ did'.stage \in {"VersionCheck", "MethodDispatch"}
           /\ did'.outbound = 0
           /\ did'.reads = 0
           /\ origin' = NoOrigin
           /\ dirs' = dirs
           /\ files' = files)]_vars

C10_Witness ==
    /\ pc = "respond"
    /\ did.stage = "MethodDispatch"
    /\ ~parsed.raised
    /\ parsed.request.method = <<"POST">>
    /\ <<host_h, urlparse(parsed.request.uri).path>> \in DOMAIN stored

\* the path and query of a request URI: what follows the host, up to a
\* fragment; "/" stands for an empty path
RequestTarget(uri) ==
    LET rest == IF uri # <<>> /\ Head(uri) = "http://"
                THEN SubSeq(Tail(uri),
                            Len(UpTo(Tail(uri), {SLASH, "?", "#"})) + 1,
                            Len(uri) - 1)
                ELSE uri
        target == UpTo(rest, {"#"})
    IN  IF target = <<>> \/ Head(target) = "?" THEN <<SLASH>> \o target
        ELSE target

\* the URI on the request line of the request sent to the origin
SentURI == split(split(did.sent, delimiter)[1], <<SP>>)[2]

\* C11: the path a GET is looked up and stored under in the cache, and the
\* path asked of the origin, is the path of the request URI together with
\* its query string
C11_QueryInKey ==
    (Handled /\ LookedUp /\ ~parsed.raised) =>
        /\ did.path = RequestTarget(parsed.request.uri)
        /\ did.sent # <<>> => SentURI = RequestTarget(parsed.request.uri)

\* C12: a request that is serialized and parsed back is the request it was:
\* equal method, URI, version, headers and body
C12_RoundTrip ==
    rebuilt.built => (~rebuilt.raised /\ rebuilt.request = http_request)

\* the Content-Length the origin of the current connection declared
DeclaredLength == ContentLength(split(HeaderBlockOf(OriginWire), delimiter))

\* the payload the read of the header block left, and every read after it
ReceivedSoFar ==
    LET tokens == split(origin.stream.chunks[1], header_delimiter)
    IN  (IF Len(tokens) > 1 THEN tokens[2] ELSE <<>>)
        \o join(Tail(origin.stream.chunks))

\* the origin of the current connection closed before it delivered the
\* Content-Length it declared
ClosedShort ==
    /\ Handled
    /\ did.outbound = 1
    /\ origin.send
    /\ origin.stream.end = "close"
    /\ DeclaredLength > ByteLen(BodyOf(OriginWire))

Stuck == pc = "blocked"

\* C14: a stuck client or origin connection blocks only its own handling:
\* while it is stuck the proxy still accepts the next client connection
C14_OthersServed == (Stuck /\ conns < MaxConns) => ENABLED Accept

\* the handler of the current connection connected to an origin that sends
\* nothing and does not close
SilentOrigin ==
    /\ Handled
    /\ did.outbound = 1
    /\ origin.send
    /\ origin.stream = [chunks |-> <<>>, end |-> "stall"]

\* C15: a handler whose origin accepts the connection and then sends nothing
\* and does not close is not left waiting: it gives up and answers the
\* client with a 500 response
C15_OriginTimeout ==
    SilentOrigin =>
        /\ pc # "blocked"
        /\ StatusOf(str(http_response)) = SERVER_ERROR

\* the file cache_file writes and read_cache reads for a (host, path)
EntryFile(host, path) == get_path(host, FilePath(path))

\* the path contains tests for a (host, path)
TestedPath(host, path) == get_path(host, path)

\* C16: the file written for the (host, path) a miss stored is the one path
\* tested for that pair, and it is neither the file nor the tested path of
\* any other pair; the tested paths of two pairs differ as well
C16_NoCollision ==
    did.stored =>
        /\ TestedPath(did.host, did.path) = EntryFile(did.host, did.path)
        /\ \A p \in Paths \ {did.path} :
             /\ EntryFile(did.host, p) # EntryFile(did.host, did.path)
             /\ TestedPath(did.host, p) # EntryFile(did.host, did.path)
             /\ TestedPath(did.host, p) # TestedPath(did.host, did.path)

\* what the client of the current connection put on the wire
ClientWire == join(client.chunks)

\* C17: receive divides a message at its first header terminator: the
\* header block is what comes before it and the payload is every byte after
\* it, for the client's message and for the origin's
C17_FirstTerminator ==
    /\ pc = "handle" =>
         /\ headers = HeaderBlockOf(ClientWire)
         /\ payload = BodyOf(ClientWire)
    /\ did.stage = "CacheDecision" => did.payload = BodyOf(OriginWire)

\* C18: when the client's stream ended without a header terminator, the
\* response chosen is a 500 and the handling looked nothing up in the cache
\* and contacted no origin
C18_NoTerminator ==
    (/\ pc \in {"respond", "close", "crashed"}
     /\ find(ClientWire, header_delimiter) = 0) =>
        /\ ~LookedUp
        /\ did.outbound = 0
        /\ did.reads = 0
        /\ StatusOf(str(http_response)) = SERVER_ERROR

\* the header lines of the request sent to the origin
SentHeaders == HeaderLinesOf(did.sent)

SentHas(line) == \E j \in 1..Len(SentHeaders) : SentHeaders[j] = line

\* the name of a header line
NameOf(line) == split(line, <<COLON>>)[1]

\* C19: the request sent to the origin on a miss has the Host header of the
\* host of the request URI and no other Host header, Connection: close, and
\* every header line the client supplied under another name than Host
C19_OutboundHeaders ==
    did.sent # <<>> =>
        /\ SentHas(<<"Host", COLON, SP>> \o did.host)
        /\ \A j \in 1..Len(SentHeaders) :
             NameOf(SentHeaders[j]) = <<"Host">> =>
                 SentHeaders[j] = <<"Host", COLON, SP>> \o did.host
        /\ SentHas(<<"Connection", COLON, SP, "close">>)
        /\ \A i \in 1..Len(HeaderLinesOf(ClientWire)) :
             (/\ find(HeaderLinesOf(ClientWire)[i], <<COLON>>) > 0
              /\ NameOf(HeaderLinesOf(ClientWire)[i]) # <<"Host">>)
             => SentHas(HeaderLinesOf(ClientWire)[i])

\* the values of the Content-Length header lines of a message
LengthsOf(text) ==
    {IntOf(strip(split(HeaderLinesOf(text)[i], <<COLON>>)[2])) :
       i \in {j \in 1..Len(HeaderLinesOf(text)) :
                lower(NameOf(HeaderLinesOf(text)[j])) = <<"content-length">>}}

\* C20: a cache-hit response has status 200 and a Content-Length header
\* whose value is the number of bytes of its body in UTF-8
C20_HitLength ==
    (did.stage = "Hit" /\ fault # "handler") =>
        /\ StatusOf(str(http_response)) = SUCCESS
        /\ LengthsOf(str(http_response))
             = {ByteLen(BodyOf(str(http_response)))}

====
